---- MODULE Spec2Model ----
(***************************************************************************)
(* A model of the STL decoder of src/stl.go: the ASCII lexer (a state      *)
(* machine of state functions driven by nextFacet), the binary facet       *)
(* reader and the sniff-and-fallback dispatcher ParseSTLBytes.             *)
(*                                                                         *)
(* Bytes are integers 0..255.  A Go byte slice is modelled by its visible  *)
(* bytes (stl) and the bytes of its backing array beyond its length        *)
(* (slack): a Go slice expression s[lo:hi] is checked against cap(s), not  *)
(* len(s), while an index expression s[i] is checked against len(s).       *)
(* A run-time panic (index or slice bounds out of range) is modelled by    *)
(* the panic flag of the lexer and ends the call in pc = "panic".          *)
(***************************************************************************)
EXTENDS Integers, Sequences, FiniteSets, TLC

VARIABLES
    stl,        \* the buffer passed to ParseSTLBytes (its visible bytes)
    slack,      \* bytes of the backing array between len(stl) and cap(stl)
    gen,        \* how the buffer was built (the input's description)
    pc,         \* position of the call
    l,          \* the lexer (src/stl.go:40-51)
    facets,     \* parseASCII's local facets
    asciiRet,   \* what parseASCII returned to ParseSTLBytes
    b,          \* parseBinary's locals
    binRet,     \* what parseBinary returned to ParseSTLBytes
    calls,      \* the parsers ParseSTLBytes has invoked so far
    ret         \* what ParseSTLBytes returned

vars == <<stl, slack, gen, pc, l, facets, asciiRet, b, binRet, calls, ret>>

----------------------------------------------------------------------------
(* Character classes and keywords (src/stl.go:17-21 and the literals of the *)
(* state functions), as byte values.                                        *)

digits == 48..57
ident == (65..90) \cup (97..122) \cup {95} \cup digits \cup {46}
spaces == {32, 10, 9, 13}
floatDigits == digits \cup {46}
signs == {43, 45}
expMarks == {101, 69}

kwSolid == <<115, 111, 108, 105, 100>>
kwFacet == <<102, 97, 99, 101, 116>>
kwNormal == <<110, 111, 114, 109, 97, 108>>
kwOuter == <<111, 117, 116, 101, 114>>
kwLoop == <<108, 111, 111, 112>>
kwVertex == <<118, 101, 114, 116, 101, 120>>
kwEndloop == <<101, 110, 100, 108, 111, 111, 112>>
kwEndfacet == <<101, 110, 100, 102, 97, 99, 101, 116>>
kwEndsolid == <<101, 110, 100, 115, 111, 108, 105, 100>>

----------------------------------------------------------------------------
(* Sequential composition.  Then(v, F) is F applied to the value of v: the  *)
(* statement that produced v has run to its end before F's statements run.  *)

Then(v, F(_)) == CHOOSE r \in {F(x) : x \in {v}} : TRUE

----------------------------------------------------------------------------
(* strconv.ParseFloat(s, 32) followed by float32(t), on a byte string.      *)
(* A value is a sign and a decimal mant * 10^exp with no trailing zero in   *)
(* mant (zero keeps its sign: -0 is a float32 distinct from 0 in its bits). *)

RECURSIVE mantEnd(_, _, _)
\* index of the first byte the mantissa loop does not consume
mantEnd(s, i, sawdot) ==
    IF i > Len(s) THEN i
    ELSE IF s[i] = 46 THEN (IF sawdot THEN i ELSE mantEnd(s, i + 1, TRUE))
    ELSE IF s[i] \in digits THEN mantEnd(s, i + 1, sawdot)
    ELSE i

RECURSIVE digitsEnd(_, _)
digitsEnd(s, i) ==
    IF i <= Len(s) /\ s[i] \in digits THEN digitsEnd(s, i + 1) ELSE i

RECURSIVE digitsValue(_, _, _, _)
\* the decimal number spelled by the digits of s[i..j-1], dots skipped
digitsValue(s, i, j, acc) ==
    IF i >= j THEN acc
    ELSE IF s[i] = 46 THEN digitsValue(s, i + 1, j, acc)
    ELSE digitsValue(s, i + 1, j, acc * 10 + (s[i] - 48))

RECURSIVE dotAt(_, _, _)
\* index of the dot in s[i..j-1], or j when there is none
dotAt(s, i, j) ==
    IF i >= j THEN j ELSE IF s[i] = 46 THEN i ELSE dotAt(s, i + 1, j)

RECURSIVE numDigits(_)
numDigits(n) == IF n < 10 THEN 1 ELSE 1 + numDigits(n \div 10)

RECURSIVE normalize(_, _, _)
normalize(neg, m, e) ==
    IF m = 0 THEN [neg |-> neg, mant |-> 0, exp |-> 0]
    ELSE IF m % 10 = 0 THEN normalize(neg, m \div 10, e + 1)
    ELSE [neg |-> neg, mant |-> m, exp |-> e]

Zero32 == [neg |-> FALSE, mant |-> 0, exp |-> 0]

\* the exponent part of s from index m1 on: [present, ok, value, end]
exponent(s, m1) ==
    IF ~(m1 <= Len(s) /\ s[m1] \in expMarks)
    THEN [ok |-> TRUE, e |-> 0, end |-> m1]
    ELSE LET eSign == m1 + 1 <= Len(s) /\ s[m1 + 1] \in signs
             e0 == IF eSign THEN m1 + 2 ELSE m1 + 1
         IN  Then(digitsEnd(s, e0), LAMBDA e1 :
                 LET eMag == digitsValue(s, e0, e1, 0)
                 IN  [ok |-> e1 > e0,
                      e |-> IF eSign /\ s[m1 + 1] = 45 THEN 0 - eMag ELSE eMag,
                      end |-> e1])

\* the value once the syntax is known to be right; bitSize 32: a magnitude
\* beyond the largest finite float32 (3.4e38) is a range error, which the
\* model decides on the decimal order of magnitude
ranged(v) ==
    IF v.mant = 0 \/ numDigits(v.mant) + v.exp - 1 <= 38
    THEN [ok |-> TRUE, val |-> v]
    ELSE [ok |-> FALSE, val |-> Zero32]

ParseFloat(s) ==
    LET hasSign == Len(s) >= 1 /\ s[1] \in signs
        neg == hasSign /\ s[1] = 45
        m0 == IF hasSign THEN 2 ELSE 1
    IN  Then(mantEnd(s, m0, FALSE), LAMBDA m1 :
        Then(dotAt(s, m0, m1), LAMBDA dot :
        Then(exponent(s, m1), LAMBDA x :
            LET nd == (m1 - m0) - (IF dot < m1 THEN 1 ELSE 0)
                fd == IF dot < m1 THEN m1 - dot - 1 ELSE 0
            IN  IF nd >= 1 /\ x.ok /\ x.end = Len(s) + 1
                THEN ranged(normalize(neg, digitsValue(s, m0, m1, 0), x.e - fd))
                ELSE [ok |-> FALSE, val |-> Zero32])))

----------------------------------------------------------------------------
(* Data model (src/stl.go:23-33).  A *Facet is a sequence of length 0 (nil) *)
(* or 1 (the facet pointed to).                                             *)

Vertex(x, y, z) == [X |-> x, Y |-> y, Z |-> z]
Facet(vs, valid, normal) == [Vertices |-> vs, Valid |-> valid, Normal |-> normal]
ZeroVertex == Vertex(Zero32, Zero32, Zero32)

----------------------------------------------------------------------------
(* The lexer (src/stl.go:40-133).  l.input is stl[5:]; its backing array    *)
(* continues with slack.  The fields ret, nums and panic model the flow of  *)
(* control inside one state function: ret is the state function's return    *)
(* value once it has returned ("" while it runs), nums its local numbers,   *)
(* panic a run-time panic, blocked a send on the full channel.              *)

SolidLen == Len(kwSolid)
inputLen == Len(stl) - SolidLen
inputCap == inputLen + Len(slack)
\* l.input[p], and the byte at offset p of the backing array of l.input
inputAt(p) == stl[p + SolidLen + 1]
backingAt(p) == IF p < inputLen THEN inputAt(p) ELSE slack[p - inputLen + 1]
QueueCap == 2

NoError == ""
lex(initialState) ==
    [state |-> initialState, start |-> 0, pos |-> 0, items |-> <<>>,
     error |-> NoError, errorAt |-> 0, meshName |-> <<>>, pendingFacet |-> <<>>,
     ret |-> "", nums |-> <<>>, panic |-> FALSE, blocked |-> FALSE]
NoLexer == lex("none")

running(lx) == ~lx.panic /\ ~lx.blocked /\ lx.ret = ""

\* input[lo:hi]: a slice expression, checked against the capacity
sliceOK(lo, hi) == 0 <= lo /\ lo <= hi /\ hi <= inputCap
slice(lo, hi) == [i \in 1..(hi - lo) |-> backingAt(lo + i - 1)]
sliceEquals(lo, hi, bytes) ==
    hi - lo = Len(bytes) /\ \A i \in 1..Len(bytes) : backingAt(lo + i - 1) = bytes[i]

\* next (src/stl.go:81-88): the rune read, -1 at end of input
next(lx) ==
    IF lx.pos >= inputLen THEN [r |-> -1, l |-> lx]
    ELSE IF lx.pos < 0 THEN [r |-> -1, l |-> [lx EXCEPT !.panic = TRUE]]
    ELSE [r |-> inputAt(lx.pos), l |-> [lx EXCEPT !.pos = @ + 1]]

ignore(lx) == IF running(lx) THEN [lx EXCEPT !.start = lx.pos] ELSE lx

backup(lx) == IF lx.panic THEN lx ELSE [lx EXCEPT !.pos = @ - 1]

peek(lx) == Then(next(lx), LAMBDA n : [r |-> n.r, l |-> backup(n.l)])

accept(valid, lx) ==
    IF ~running(lx) THEN [ok |-> FALSE, l |-> lx]
    ELSE Then(next(lx), LAMBDA n :
             IF n.l.panic THEN [ok |-> FALSE, l |-> n.l]
             ELSE IF n.r \in valid THEN [ok |-> TRUE, l |-> n.l]
             ELSE [ok |-> FALSE, l |-> backup(n.l)])

\* where the loop of acceptRun stops reading: the first offset from p on that
\* is the end of input or holds a byte outside valid
runEnd(valid, p) ==
    CHOOSE e \in p..(IF inputLen > p THEN inputLen ELSE p) :
        /\ e >= inputLen \/ inputAt(e) \notin valid
        /\ \A q \in p..(e - 1) : inputAt(q) \in valid

\* the loop of acceptRun: calls next until it returns a rune outside valid;
\* the last call leaves pos after the byte it read, or where it was at end
\* of input
acceptRunLoop(valid, lx, result) ==
    IF lx.pos < 0 THEN [ok |-> result, l |-> [lx EXCEPT !.panic = TRUE]]
    ELSE Then(runEnd(valid, lx.pos), LAMBDA e :
             [ok |-> result \/ e > lx.pos,
              l |-> [lx EXCEPT !.pos = IF e >= inputLen THEN e ELSE e + 1]])

acceptRun(valid, lx) ==
    IF ~running(lx) THEN [ok |-> FALSE, l |-> lx]
    ELSE Then(acceptRunLoop(valid, lx, FALSE), LAMBDA r :
             [ok |-> r.ok, l |-> backup(r.l)])

acceptKeyword(keyword, lx) ==
    IF ~running(lx) THEN [ok |-> FALSE, l |-> lx]
    ELSE IF ~sliceOK(lx.pos, lx.pos + Len(keyword))
    THEN [ok |-> FALSE, l |-> [lx EXCEPT !.panic = TRUE]]
    ELSE IF sliceEquals(lx.pos, lx.pos + Len(keyword), keyword)
    THEN [ok |-> TRUE, l |-> [lx EXCEPT !.pos = @ + Len(keyword)]]
    ELSE [ok |-> FALSE, l |-> lx]

\* a slip in src/stl.go:131: the facet sent twice
emit_twice(lx, f) ==
    IF Len(lx.items) >= QueueCap THEN [lx EXCEPT !.blocked = TRUE]
    ELSE [lx EXCEPT !.items = Append(Append(@, f), f), !.start = lx.pos]

\* emit (src/stl.go:130-133): a send on a full channel blocks for ever
emit(lx, f) ==
    IF Len(lx.items) >= QueueCap THEN [lx EXCEPT !.blocked = TRUE]
    ELSE [lx EXCEPT !.items = Append(@, f), !.start = lx.pos]

\* errorf (src/stl.go:135-138) with the message's arguments: the bytes
\* input[sawLo:sawHi] are sliced to build the message
errorf(lx, msg, sawLo, sawHi) ==
    IF ~running(lx) THEN lx
    ELSE IF ~sliceOK(sawLo, sawHi) THEN [lx EXCEPT !.panic = TRUE]
    ELSE [lx EXCEPT !.error = msg, !.errorAt = lx.pos, !.ret = "nil"]

acceptNumber(lx) ==
    IF ~running(lx) THEN [ok |-> FALSE, l |-> lx]
    ELSE Then(accept(signs, lx), LAMBDA a1 :
         Then(acceptRun(floatDigits, a1.l), LAMBDA r1 :
             IF ~r1.ok THEN [ok |-> FALSE, l |-> r1.l]
             ELSE Then(accept(expMarks, r1.l), LAMBDA a2 :
                  IF ~a2.ok THEN [ok |-> TRUE, l |-> a2.l]
                  ELSE Then(accept(signs, a2.l), LAMBDA a3 :
                       Then(acceptRun(floatDigits, a3.l), LAMBDA r2 :
                           [ok |-> r2.ok, l |-> r2.l])))))

----------------------------------------------------------------------------
(* The state functions (src/stl.go:154-266).  Each is the composition of    *)
(* its statements; a statement after a return or a panic changes nothing.   *)

skipSpaces(lx) == acceptRun(spaces, lx).l

\* if !l.acceptKeyword(k) { return l.errorf("Expected keyword ...", l.pos,
\*                                          l.input[l.pos:l.pos+len(k)]) }
expectKeyword(keyword, lx) ==
    Then(acceptKeyword(keyword, lx), LAMBDA k :
        IF k.ok \/ ~running(k.l) THEN k.l
        ELSE errorf(k.l, "Expected keyword", k.l.pos, k.l.pos + Len(keyword)))

\* a slip in src/stl.go:169-171: the error of ParseFloat is not looked at
parseNumber_unchecked(c, lx) ==
    IF ~sliceOK(c, lx.pos) THEN [lx EXCEPT !.panic = TRUE]
    ELSE Then(slice(c, lx.pos), LAMBDA text :
         Then(ParseFloat(text), LAMBDA t : [lx EXCEPT !.nums = Append(@, t.val)]))

\* strconv.ParseFloat(string(l.input[c:l.pos]), 32) and what follows it
\* (src/stl.go:168-172, 211-214)
parseNumber(c, lx) ==
    IF ~sliceOK(c, lx.pos) THEN [lx EXCEPT !.panic = TRUE]
    ELSE Then(slice(c, lx.pos), LAMBDA text :
         Then(ParseFloat(text), LAMBDA t :
             IF ~t.ok THEN errorf(lx, "Unable to parse float", c, lx.pos)
             ELSE [lx EXCEPT !.nums = Append(@, t.val)]))

\* the number read at byte offset c of the input (src/stl.go:165-172,
\* 208-214)
number(c, lx) ==
    Then(acceptNumber(lx), LAMBDA n :
        IF ~running(n.l) THEN n.l
        ELSE IF ~n.ok
        THEN errorf(n.l, "Expected a number", n.l.pos, n.l.pos + 1)
        ELSE parseNumber(c, n.l))

\* src/stl.go:163-172: l.acceptRun(spaces); c := l.pos; ...
vertexNumber(lx) == Then(skipSpaces(lx), LAMBDA s : number(s.pos, s))

\* src/stl.go:206-214: l.acceptRun(spaces); l.ignore(); ... input[l.start:l.pos]
normalNumber(lx) ==
    Then(skipSpaces(lx), LAMBDA s :
    Then(ignore(s), LAMBDA i : number(i.start, i)))

\* one iteration of the loop of src/stl.go:156-175
vertexLine(lx) ==
    Then(skipSpaces(lx), LAMBDA s :
    Then(expectKeyword(kwVertex, s), LAMBDA k :
    Then(vertexNumber(k), LAMBDA x :
    Then(vertexNumber(x), LAMBDA y : vertexNumber(y)))))

\* a slip in src/stl.go:174: Y and Z taken from each other's place
vertices_swapped(nums) ==
    [i \in 1..3 |-> Vertex(nums[3 * i - 2], nums[3 * i], nums[3 * i - 1])]

\* vs, from the nine numbers read (src/stl.go:174)
vertices(nums) ==
    [i \in 1..3 |-> Vertex(nums[3 * i - 2], nums[3 * i - 1], nums[3 * i])]

\* l.pendingFacet with its vertices and Valid set (src/stl.go:185-186)
validFacet(f, vs) == [f EXCEPT !.Vertices = vs, !.Valid = TRUE]

\* a slip in src/stl.go:188: l.pendingFacet is not cleared
completeFacet_keeps(lx) ==
    IF ~running(lx) THEN lx
    ELSE IF lx.pendingFacet = <<>> THEN [lx EXCEPT !.panic = TRUE]
    ELSE Then(emit(lx, validFacet(lx.pendingFacet[1], vertices(lx.nums))),
              LAMBDA e :
                  IF e.blocked THEN e ELSE [e EXCEPT !.ret = "asciiFacet"])

\* a slip in src/stl.go:189: return nil after the facet was sent
completeFacet_terminates(lx) ==
    IF ~running(lx) THEN lx
    ELSE IF lx.pendingFacet = <<>> THEN [lx EXCEPT !.panic = TRUE]
    ELSE Then(emit(lx, validFacet(lx.pendingFacet[1], vertices(lx.nums))),
              LAMBDA e :
                  IF e.blocked THEN e
                  ELSE [e EXCEPT !.pendingFacet = <<>>, !.ret = "nil"])

\* src/stl.go:185-189
completeFacet(lx) ==
    IF ~running(lx) THEN lx
    ELSE IF lx.pendingFacet = <<>> THEN [lx EXCEPT !.panic = TRUE]
    ELSE Then(emit(lx, validFacet(lx.pendingFacet[1], vertices(lx.nums))),
              LAMBDA e :
                  IF e.blocked THEN e
                  ELSE [e EXCEPT !.pendingFacet = <<>>, !.ret = "asciiFacet"])

\* the state function's result becomes l.state (src/stl.go:73)
returned(lx) ==
    IF lx.panic \/ lx.blocked THEN lx
    ELSE [lx EXCEPT !.state = lx.ret, !.ret = "", !.nums = <<>>]

\* src/stl.go:176-183
endOfBlock(lx) ==
    Then(skipSpaces(lx), LAMBDA s1 :
    Then(expectKeyword(kwEndloop, s1), LAMBDA el :
    Then(skipSpaces(el), LAMBDA s2 : expectKeyword(kwEndfacet, s2))))

asciiVertex(lx) ==
    Then(vertexLine(lx), LAMBDA v1 :
    Then(vertexLine(v1), LAMBDA v2 :
    Then(vertexLine(v2), LAMBDA v3 :
    Then(endOfBlock(v3), LAMBDA ef :
    Then(skipSpaces(ef), LAMBDA s :
    Then(completeFacet(s), LAMBDA done : returned(done)))))))

\* src/stl.go:192-199: the keyword facet, or endsolid
facetOrEnd(lx) ==
    Then(skipSpaces(lx), LAMBDA s :
    Then(acceptKeyword(kwFacet, s), LAMBDA k :
        IF k.ok \/ ~running(k.l) THEN k.l
        ELSE Then(acceptKeyword(kwEndsolid, k.l), LAMBDA e :
                 IF ~running(e.l) THEN e.l
                 ELSE IF e.ok THEN [e.l EXCEPT !.ret = "nil"]
                 ELSE errorf(e.l, "Expected keyword", e.l.pos,
                             e.l.pos + Len(kwFacet)))))

\* src/stl.go:246-253
newPendingFacet(lx) ==
    IF ~running(lx) THEN lx
    ELSE [lx EXCEPT !.pendingFacet =
                        <<Facet(<<ZeroVertex, ZeroVertex, ZeroVertex>>, FALSE,
                                Vertex(lx.nums[1], lx.nums[2], lx.nums[3]))>>,
                    !.ret = "asciiVertex"]

\* src/stl.go:200-234: the keyword normal and the three numbers
normalLine(lx) ==
    Then(skipSpaces(lx), LAMBDA s :
    Then(expectKeyword(kwNormal, s), LAMBDA n :
    Then(normalNumber(n), LAMBDA ni :
    Then(normalNumber(ni), LAMBDA nj : normalNumber(nj)))))

\* src/stl.go:236-244
outerLoop(lx) ==
    Then(skipSpaces(lx), LAMBDA s1 :
    Then(expectKeyword(kwOuter, s1), LAMBDA o :
    Then(skipSpaces(o), LAMBDA s2 : expectKeyword(kwLoop, s2))))

asciiFacet(lx) ==
    Then(facetOrEnd(lx), LAMBDA f :
    Then(normalLine(f), LAMBDA nk :
    Then(outerLoop(nk), LAMBDA lp :
    Then(newPendingFacet(lp), LAMBDA done : returned(done)))))

\* src/stl.go:259-265
headerName(lx) ==
    IF ~running(lx) THEN lx
    ELSE IF ~sliceOK(lx.start, lx.pos) THEN [lx EXCEPT !.panic = TRUE]
    ELSE IF sliceEquals(lx.start, lx.pos, kwFacet)
    THEN [ignore(lx) EXCEPT !.ret = "asciiFacet"]
    ELSE [lx EXCEPT !.meshName = slice(lx.start, lx.pos), !.ret = "asciiFacet"]

\* src/stl.go:256-266
asciiFileHeader(lx) ==
    Then(skipSpaces(lx), LAMBDA s :
    Then(acceptRun(ident, s), LAMBDA i :
    Then(headerName(i.l), LAMBDA done : returned(done))))

----------------------------------------------------------------------------
(* Return values: a facet list (a Go slice: nil or not) and an error.       *)

NilErr == [type |-> "nil", msg |-> ""]
Err(type, msg) == [type |-> type, msg |-> msg]
Result(fs, isNil, err) == [facets |-> fs, isNil |-> isNil, err |-> err]
NoResult == Result(<<>>, TRUE, Err("none", ""))

\* a slip in src/stl.go:278: return facets, LexerError{e: l.error}
parseASCIIResult_partial(lx, fs) ==
    IF lx.error # NoError THEN Result(fs, fs = <<>>, Err("LexerError", lx.error))
    ELSE Result(fs, fs = <<>>, NilErr)

\* src/stl.go:277-280
parseASCIIResult(lx, fs) ==
    IF lx.error # NoError THEN Result(<<>>, TRUE, Err("LexerError", lx.error))
    ELSE Result(fs, fs = <<>>, NilErr)

----------------------------------------------------------------------------
(* The binary reader (src/stl.go:284-338).  A float32 is its bit pattern.   *)

HeaderLen == 80
CountLen == 4
FloatLen == 4
AttrLen == 2

\* a 32-bit word, kept as its two 16-bit halves: hi * 65536 + lo
U32(hi, lo) == [hi |-> hi, lo |-> lo]

\* a slip in src/stl.go:300-319: binary.BigEndian
le32_bigEndian(s, off) ==
    U32(s[off + 2] + 256 * s[off + 1], s[off + 4] + 256 * s[off + 3])

\* binary.LittleEndian, 4 bytes at (0-based) offset off of s
le32(s, off) == U32(s[off + 3] + 256 * s[off + 4], s[off + 1] + 256 * s[off + 2])

\* i < n for a loop counter i below 65536 and a 32-bit n
below(i, n) == n.hi > 0 \/ i < n.lo

\* the bytes.Buffer triangles: stl[84:], read at offset bs.off
remaining(bs) == Len(stl) - HeaderLen - CountLen - bs.off

\* binary.Read: io.ReadFull's error when fewer bytes remain than wanted
readError(bs) ==
    IF remaining(bs) = 0 THEN Err("io", "EOF") ELSE Err("io", "unexpected EOF")

\* binary.Read(triangles, binary.LittleEndian, &t) (src/stl.go:310-313)
readT(bs) ==
    IF bs.err # NilErr THEN bs
    ELSE IF remaining(bs) < FloatLen THEN [bs EXCEPT !.err = readError(bs)]
    ELSE [bs EXCEPT !.t = le32(stl, HeaderLen + CountLen + bs.off),
                    !.off = @ + FloatLen]

\* src/stl.go:314 had it used t, the float just read, for the component
normalFromT(bs) ==
    IF bs.err # NilErr THEN bs
    ELSE [bs EXCEPT !.normal = Vertex(bs.t, bs.t, bs.t)]

\* src/stl.go:314: the normal is built from ps, not from t
normalFromScratch(bs) ==
    IF bs.err # NilErr THEN bs
    ELSE [bs EXCEPT !.normal = Vertex(bs.ps[1], bs.ps[2], bs.ps[3])]

\* binary.Read(triangles, binary.LittleEndian, &ps[k]) (src/stl.go:319-322)
readPs(k, bs) ==
    IF bs.err # NilErr THEN bs
    ELSE IF remaining(bs) < FloatLen THEN [bs EXCEPT !.err = readError(bs)]
    ELSE [bs EXCEPT !.ps[k] = le32(stl, HeaderLen + CountLen + bs.off),
                    !.off = @ + FloatLen]

\* src/stl.go:309-315, one iteration of the loop over j
readNormalFloat(bs) == Then(readT(bs), LAMBDA r : normalFromScratch(r))

\* src/stl.go:317-325, one iteration of the loop over j
readVertex(j, bs) ==
    Then(readPs(1, bs), LAMBDA x :
    Then(readPs(2, x), LAMBDA y :
    Then(readPs(3, y), LAMBDA z :
        IF z.err # NilErr THEN z
        ELSE [z EXCEPT !.vs[j] = Vertex(z.ps[1], z.ps[2], z.ps[3])])))

\* a slip in src/stl.go:329: Valid left unset
storeFacet_invalid(bs) ==
    IF bs.err # NilErr THEN bs
    ELSE [bs EXCEPT !.facets = Append(@, Facet(bs.vs, FALSE, bs.normal))]

\* src/stl.go:326-330
storeFacet(bs) ==
    IF bs.err # NilErr THEN bs
    ELSE [bs EXCEPT !.facets = Append(@, Facet(bs.vs, TRUE, bs.normal))]

\* a slip in src/stl.go:331-334: the error of the read is not looked at
readAttr_unchecked(bs) ==
    IF bs.err # NilErr THEN bs ELSE [bs EXCEPT !.off = @ + AttrLen]

\* binary.Read(triangles, binary.LittleEndian, &ut) (src/stl.go:331-334)
readAttr(bs) ==
    IF bs.err # NilErr THEN bs
    ELSE IF remaining(bs) < AttrLen THEN [bs EXCEPT !.err = readError(bs)]
    ELSE [bs EXCEPT !.off = @ + AttrLen]

ZeroBits == Vertex(U32(0, 0), U32(0, 0), U32(0, 0))

\* var vs [3]Vertex; var normal Vertex (src/stl.go:306-307)
freshRecord(bs) ==
    [bs EXCEPT !.vs = <<ZeroBits, ZeroBits, ZeroBits>>, !.normal = ZeroBits]

\* one iteration of the loop of src/stl.go:305-335
readRecord(bs) ==
    Then(freshRecord(bs), LAMBDA f :
    Then(readNormalFloat(f), LAMBDA n1 :
    Then(readNormalFloat(n1), LAMBDA n2 :
    Then(readNormalFloat(n2), LAMBDA n3 :
    Then(readVertex(1, n3), LAMBDA v1 :
    Then(readVertex(2, v1), LAMBDA v2 :
    Then(readVertex(3, v2), LAMBDA v3 :
    Then(storeFacet(v3), LAMBDA s :
    Then(readAttr(s), LAMBDA r :
        IF r.err # NilErr THEN r ELSE [r EXCEPT !.i = @ + 1])))))))))

\* the locals after src/stl.go:296-304
binaryLocals(n) ==
    [numTriangles |-> n, i |-> 0, off |-> 0, t |-> U32(0, 0),
     ps |-> <<U32(0, 0), U32(0, 0), U32(0, 0)>>,
     vs |-> <<ZeroBits, ZeroBits, ZeroBits>>, normal |-> ZeroBits,
     facets |-> <<>>, err |-> NilErr]
NoBinary == binaryLocals(U32(0, 0))

----------------------------------------------------------------------------
(* The inputs.  An ASCII input is the text "solid <name> <block>* endsolid  *)
(* [<name>]" with one separator between tokens, possibly with one keyword   *)
(* of one block left out, one number misspelt, the name left out, or cut at *)
(* a length; a binary input is a header, a declared count and records, cut  *)
(* at a length.                                                             *)

MaxFacets == 2      \* facet blocks of an ASCII input
MaxTriangles == 2   \* declared count of a binary input
SlackLen == 16      \* spare capacity of the buffer's backing array
Templates == {0, 1}

Val(neg, mant, exp) == [neg |-> neg, mant |-> mant, exp |-> exp]

\* well-formed number tokens and the float32 each spells:
\* 1  0  -2  0.5  -0  1.5e1  +3  2.
NumTok ==
    << [text |-> <<49>>, val |-> Val(FALSE, 1, 0)],
       [text |-> <<48>>, val |-> Val(FALSE, 0, 0)],
       [text |-> <<45, 50>>, val |-> Val(TRUE, 2, 0)],
       [text |-> <<48, 46, 53>>, val |-> Val(FALSE, 5, -1)],
       [text |-> <<45, 48>>, val |-> Val(TRUE, 0, 0)],
       [text |-> <<49, 46, 53, 101, 49>>, val |-> Val(FALSE, 15, 0)],
       [text |-> <<43, 51>>, val |-> Val(FALSE, 3, 0)],
       [text |-> <<50, 46>>, val |-> Val(FALSE, 2, 0)] >>

\* the j-th number (1..12: the normal, then the three vertices) of a block
\* written from template t
blockNum(t, j) == NumTok[((t * 5 + (j - 1) * 3) % Len(NumTok)) + 1]

vertexTokens(t, v) ==
    <<kwVertex, blockNum(t, 3 * v + 1).text, blockNum(t, 3 * v + 2).text,
      blockNum(t, 3 * v + 3).text>>

blockTokens(t) ==
    <<kwFacet, kwNormal, blockNum(t, 1).text, blockNum(t, 2).text,
      blockNum(t, 3).text, kwOuter, kwLoop>>
    \o vertexTokens(t, 1) \o vertexTokens(t, 2) \o vertexTokens(t, 3)
    \o <<kwEndloop, kwEndfacet>>

\* the facet a block written from template t spells
blockFacet(t) ==
    Facet([v \in 1..3 |-> Vertex(blockNum(t, 3 * v + 1).val,
                                 blockNum(t, 3 * v + 2).val,
                                 blockNum(t, 3 * v + 3).val)],
          TRUE,
          Vertex(blockNum(t, 1).val, blockNum(t, 2).val, blockNum(t, 3).val))

RECURSIVE blocksTokens(_)
blocksTokens(ts) ==
    IF ts = <<>> THEN <<>> ELSE blockTokens(Head(ts)) \o blocksTokens(Tail(ts))

RECURSIVE join(_, _)
join(toks, sep) ==
    IF toks = <<>> THEN <<>>
    ELSE IF Len(toks) = 1 THEN toks[1]
    ELSE toks[1] \o sep \o join(Tail(toks), sep)

remove(toks, k) == SubSeq(toks, 1, k - 1) \o SubSeq(toks, k + 1, Len(toks))

Names == << <<97>>, <<109, 46, 49, 95, 88>> >>          \* a   m.1_X
Seps == << <<32>>, <<13, 10, 9, 32>> >>                 \* " "   "\r\n\t "
TokensPerBlock == Len(blockTokens(0))

\* index, among the tokens after the name, of a keyword of block d
omitIndex(kw, d) ==
    1 + TokensPerBlock * d - (IF kw = "endloop" THEN 1 ELSE 0)

\* number tokens that acceptNumber takes and that spell no float:
\* 1.2.3  .  1e.
BadTok == << <<49, 46, 50, 46, 51>>, <<46>>, <<49, 101, 46>> >>

\* index, among the tokens of a block, of its j-th number (1..12)
numIndex(j) == IF j <= 3 THEN 2 + j ELSE 8 + 4 * ((j - 4) \div 3) + ((j - 4) % 3) + 1

replace(toks, k, tok) == [toks EXCEPT ![k] = tok]

\* the mesh name, when the input has one
nameTokens(g) == IF g.kind \in {"nameless", "glued"} THEN <<>> ELSE <<Names[g.name]>>

asciiTokens(g) ==
    LET whole == nameTokens(g) \o blocksTokens(g.blocks) \o <<kwEndsolid>>
                 \o (IF g.trailer THEN nameTokens(g) ELSE <<>>)
    IN  IF g.omitKw # "" THEN remove(whole, omitIndex(g.omitKw, g.omitAt))
        ELSE IF g.badTok # 0
        THEN replace(whole, 1 + TokensPerBlock * (g.omitAt - 1) + numIndex(g.badAt),
                     BadTok[g.badTok])
        ELSE whole

\* "solid", then the tokens; a glued input has nothing between "solid" and
\* its first token
asciiText(g) ==
    kwSolid \o (IF g.kind = "glued" THEN <<>> ELSE <<32>>)
    \o join(asciiTokens(g), Seps[g.sep])

rep(x, n) == [i \in 1..n |-> x]

\* float32 values of binary records: bytes and bit pattern (high and low half)
\* 1.0  0.0  -2.0  0.5  1.5  -0.5  1.23  -0.00725
FloatTab ==
    << [bytes |-> <<0, 0, 128, 63>>, bits |-> U32(16256, 0)],
       [bytes |-> <<0, 0, 0, 0>>, bits |-> U32(0, 0)],
       [bytes |-> <<0, 0, 0, 192>>, bits |-> U32(49152, 0)],
       [bytes |-> <<0, 0, 0, 63>>, bits |-> U32(16128, 0)],
       [bytes |-> <<0, 0, 192, 63>>, bits |-> U32(16320, 0)],
       [bytes |-> <<0, 0, 0, 191>>, bits |-> U32(48896, 0)],
       [bytes |-> <<164, 112, 157, 63>>, bits |-> U32(16285, 28836)],
       [bytes |-> <<104, 145, 237, 187>>, bits |-> U32(48109, 37224)] >>

\* the j-th float (1..12) of a record written from template t
recordNum(t, j) == FloatTab[((t * 3 + (j - 1) * 5) % Len(FloatTab)) + 1]

RECURSIVE recordFloats(_, _)
recordFloats(t, j) ==
    IF j > 12 THEN <<>> ELSE recordNum(t, j).bytes \o recordFloats(t, j + 1)

recordBytes(t) == recordFloats(t, 1) \o <<t + 1, 7>>

RECURSIVE recordsBytes(_, _)
\* records r .. n-1 of the input of seed sd
recordsBytes(sd, r) ==
    IF r > MaxTriangles THEN <<>>
    ELSE recordBytes((sd + r) % 2) \o recordsBytes(sd, r + 1)

Headers ==
    << rep(0, HeaderLen),
       kwSolid \o rep(0, HeaderLen - Len(kwSolid)),
       kwSolid \o rep(32, HeaderLen - Len(kwSolid)) >>

countBytes(n) == <<n % 256, (n \div 256) % 256, (n \div 65536) % 256, n \div 16777216>>

binaryBytes(g) == Headers[g.hdr] \o countBytes(g.declared) \o recordsBytes(g.seed, 0)

whole(g) == IF g.kind = "binary" THEN binaryBytes(g) ELSE asciiText(g)

Gen(kind, name, blocks, sep, trailer, omitKw, omitAt, hdr, declared, seed) ==
    [kind |-> kind, name |-> name, blocks |-> blocks, sep |-> sep,
     trailer |-> trailer, omitKw |-> omitKw, omitAt |-> omitAt,
     hdr |-> hdr, declared |-> declared, seed |-> seed, len |-> -1,
     badAt |-> 0, badTok |-> 0]

BlockSeqs == UNION {[1..k -> Templates] : k \in 0..MaxFacets}

WellFormedGens ==
    {Gen("ascii", n, bs, sp, tr, "", 0, 1, 0, 0) :
        n \in 1..Len(Names), bs \in BlockSeqs, sp \in 1..Len(Seps), tr \in BOOLEAN}

OmitGens ==
    UNION {{Gen("ascii", g.name, g.blocks, g.sep, g.trailer, kw, d, 1, 0, 0) :
               kw \in {"endloop", "endfacet"}, d \in 1..Len(g.blocks)} :
           g \in WellFormedGens}

\* the inputs cut at every length are those of at most one block
CutBases ==
    {Gen("cut", 1, bs, sp, FALSE, "", 0, 1, 0, 0) :
        bs \in {<<>>, <<0>>}, sp \in 1..Len(Seps)}

BinaryBases ==
    {Gen("binary", 1, <<>>, 1, FALSE, "", 0, h, n, sd) :
        h \in 1..Len(Headers), n \in (0..MaxTriangles) \cup {256}, sd \in Templates}

\* inputs without a mesh name: "solid facet ..." and "solidfacet ..."
NamelessGens ==
    {Gen(k, 1, bs, sp, FALSE, "", 0, 1, 0, 0) :
        k \in {"nameless", "glued"}, bs \in BlockSeqs \ {<<>>}, sp \in 1..Len(Seps)}

\* inputs with number j of block d replaced by a token that spells no float
BadNumGens ==
    UNION {{[Gen("badnum", 1, bs, 1, FALSE, "", d, 1, 0, 0)
                EXCEPT !.badAt = j, !.badTok = ((d + j) % Len(BadTok)) + 1] :
               d \in 1..Len(bs), j \in 1..12} :
           bs \in BlockSeqs}

Sized(g, n) == [g EXCEPT !.len = n]

Gens ==
    {Sized(g, Len(whole(g))) :
        g \in WellFormedGens \cup OmitGens \cup NamelessGens \cup BadNumGens}
    \cup UNION {{Sized(g, n) : n \in 0..(Len(whole(g)) - 1)} : g \in CutBases}
    \cup UNION {{Sized(g, n) : n \in 0..Len(whole(g))} : g \in BinaryBases}

Slacks == {<<>>, rep(0, SlackLen)}

\* string(stl[0:5]) == "solid" (src/stl.go:354)
startsWithSolid(s) == Len(s) >= SolidLen /\ SubSeq(s, 1, SolidLen) = kwSolid

\* a slip in src/stl.go:351: len(stl) < 4
tooSmall_offByOne(s) == Len(s) < 4

\* len(stl) < 5 (src/stl.go:351)
tooSmall(s) == Len(s) < 5

----------------------------------------------------------------------------
(* The call ParseSTLBytes(stl).                                             *)

Init ==
    /\ gen \in Gens
    /\ stl = SubSeq(whole(gen), 1, gen.len)
    /\ slack \in (IF startsWithSolid(stl) THEN Slacks ELSE {<<>>})
    /\ pc = "ParseSTLBytes"
    /\ l = NoLexer
    /\ facets = <<>>
    /\ asciiRet = NoResult
    /\ b = NoBinary
    /\ binRet = NoResult
    /\ calls = <<>>
    /\ ret = NoResult

\* src/stl.go:350-355 and 365
ParseSTLBytes ==
    /\ pc = "ParseSTLBytes"
    /\ IF tooSmall(stl)
       THEN /\ ret' = Result(<<>>, TRUE, Err("errorString", "STL file too small (<5 bytes)"))
            /\ pc' = "done"
            /\ UNCHANGED <<l, calls>>
       ELSE IF startsWithSolid(stl)
       THEN /\ l' = lex("asciiFileHeader")
            /\ calls' = Append(calls, "parseASCII")
            /\ pc' = "nextFacet"
            /\ ret' = ret
       ELSE /\ calls' = Append(calls, "parseBinary")
            /\ pc' = "parseBinary"
            /\ UNCHANGED <<l, ret>>
    /\ UNCHANGED <<stl, slack, gen, facets, asciiRet, b, binRet>>

\* where the call goes after a state function ran (src/stl.go:73-76)
afterState(lx) ==
    IF lx.panic THEN "panic"
    ELSE IF lx.blocked THEN "blocked"
    ELSE IF lx.state = "nil" THEN "parseASCII.return"
    ELSE "nextFacet"

\* nextFacet's default case, one action per state function
RunState(name, after) ==
    /\ pc = "nextFacet"
    /\ l.items = <<>>
    /\ l.state = name
    /\ l' = after
    /\ pc' = afterState(l')
    /\ UNCHANGED <<stl, slack, gen, facets, asciiRet, b, binRet, calls, ret>>

RunAsciiFileHeader == RunState("asciiFileHeader", asciiFileHeader(l))
RunAsciiFacet == RunState("asciiFacet", asciiFacet(l))
RunAsciiVertex == RunState("asciiVertex", asciiVertex(l))

\* nextFacet's receive case and the body of parseASCII's loop
\* (src/stl.go:70-71, 273-276)
ReceiveFacet ==
    /\ pc = "nextFacet"
    /\ l.items # <<>>
    /\ l' = [l EXCEPT !.items = Tail(@)]
    /\ IF Head(l.items).Valid
       THEN facets' = Append(facets, Head(l.items)) /\ pc' = "nextFacet"
       ELSE facets' = facets /\ pc' = "parseASCII.return"
    /\ UNCHANGED <<stl, slack, gen, asciiRet, b, binRet, calls, ret>>

\* src/stl.go:277-280
ParseASCIIReturn ==
    /\ pc = "parseASCII.return"
    /\ asciiRet' = parseASCIIResult(l, facets)
    /\ pc' = "ParseSTLBytes.ascii"
    /\ UNCHANGED <<stl, slack, gen, l, facets, b, binRet, calls, ret>>

\* src/stl.go:356-363, up to the call of parseBinary
AfterASCII ==
    /\ pc = "ParseSTLBytes.ascii"
    /\ IF asciiRet.err # NilErr
       THEN /\ calls' = Append(calls, "parseBinary")
            /\ pc' = "parseBinary"
            /\ ret' = ret
       ELSE /\ ret' = Result(asciiRet.facets, asciiRet.isNil, NilErr)
            /\ pc' = "done"
            /\ calls' = calls
    /\ UNCHANGED <<stl, slack, gen, l, facets, asciiRet, b, binRet>>

\* src/stl.go:284-304
ParseBinaryHeader ==
    /\ pc = "parseBinary"
    /\ IF Len(stl) < HeaderLen
       THEN /\ binRet' = Result(<<>>, TRUE,
                                Err("errorString", "Incomplete header on binary STL file."))
            /\ pc' = "parseBinary.return"
            /\ b' = b
       ELSE IF Len(stl) - HeaderLen < CountLen
       THEN /\ binRet' = Result(<<>>, TRUE,
                                Err("errorString", "Binary STL file contains no data."))
            /\ pc' = "parseBinary.return"
            /\ b' = b
       ELSE /\ b' = binaryLocals(le32(stl, HeaderLen))
            /\ pc' = "parseBinary.loop"
            /\ binRet' = binRet
    /\ UNCHANGED <<stl, slack, gen, l, facets, asciiRet, calls, ret>>

\* src/stl.go:305-335, one record
ParseBinaryRecord ==
    /\ pc = "parseBinary.loop"
    /\ below(b.i, b.numTriangles)
    /\ b' = readRecord(b)
    /\ IF b'.err # NilErr
       THEN binRet' = Result(<<>>, TRUE, b'.err) /\ pc' = "parseBinary.return"
       ELSE binRet' = binRet /\ pc' = pc
    /\ UNCHANGED <<stl, slack, gen, l, facets, asciiRet, calls, ret>>

\* src/stl.go:337
ParseBinaryDone ==
    /\ pc = "parseBinary.loop"
    /\ ~below(b.i, b.numTriangles)
    /\ binRet' = Result(b.facets, FALSE, NilErr)
    /\ pc' = "parseBinary.return"
    /\ UNCHANGED <<stl, slack, gen, l, facets, asciiRet, b, calls, ret>>

\* a slip in src/stl.go:359: return nil, err2
bothFailed_binary(asciiErr, binErr) == binErr

\* what ParseSTLBytes returns after the fallback when both attempts failed
\* (src/stl.go:358-360)
bothFailed(asciiErr, binErr) == asciiErr

\* src/stl.go:357-361 after the fallback, 365 otherwise
AfterBinary ==
    /\ pc = "parseBinary.return"
    /\ IF calls[1] = "parseASCII"
       THEN IF binRet.err # NilErr
            THEN ret' = Result(<<>>, TRUE, bothFailed(asciiRet.err, binRet.err))
            ELSE ret' = Result(binRet.facets, binRet.isNil, NilErr)
       ELSE ret' = binRet
    /\ pc' = "done"
    /\ UNCHANGED <<stl, slack, gen, l, facets, asciiRet, b, binRet, calls>>

Next ==
    \/ ParseSTLBytes
    \/ RunAsciiFileHeader
    \/ RunAsciiFacet
    \/ RunAsciiVertex
    \/ ReceiveFacet
    \/ ParseASCIIReturn
    \/ AfterASCII
    \/ ParseBinaryHeader
    \/ ParseBinaryRecord
    \/ ParseBinaryDone
    \/ AfterBinary

Spec == Init /\ [][Next]_vars

\* the call is one sequential run of a program: a statement that can run does
FairSpec == Spec /\ WF_vars(Next)

----------------------------------------------------------------------------
(* Properties.                                                              *)

done == pc = "done"
aborted == pc \in {"panic", "blocked"}
succeeded == done /\ ret.err = NilErr

WellFormedASCII == gen.kind = "ascii" /\ gen.omitKw = ""
OmittedKeyword == gen.kind = "ascii" /\ gen.omitKw # ""
BinaryLayout == gen.kind = "binary"

\* a binary record: normal, three vertices, attribute (50 bytes)
RecordLen == 3 * FloatLen + 9 * FloatLen + AttrLen
\* the length of header, count and n records
binaryLen(n) == HeaderLen + CountLen + RecordLen * n
\* a binary input that holds all the records it declares
Complete == BinaryLayout /\ Len(stl) >= binaryLen(gen.declared)

\* what the i-th facet block of the input spells
blockOf(i) == blockFacet(gen.blocks[i])
\* the template the i-th record (from 1) of the input was written from
templateOf(i) == (gen.seed + i - 1) % 2
\* vertex j (1..3) and normal of the i-th record, as written
recordVertex(i, j) ==
    Vertex(recordNum(templateOf(i), 3 * j + 1).bits,
           recordNum(templateOf(i), 3 * j + 2).bits,
           recordNum(templateOf(i), 3 * j + 3).bits)
recordNormal(i) ==
    Vertex(recordNum(templateOf(i), 1).bits, recordNum(templateOf(i), 2).bits,
           recordNum(templateOf(i), 3).bits)

\* C1: a well-formed ASCII input "solid <name> (facet block)^K endsolid"
\* never aborts, and ParseSTLBytes returns no error and exactly K facets, the
\* i-th carrying the normal and the vertices of the i-th block; for K = 0 the
\* result is the empty sequence.
C1_WellFormedASCII ==
    WellFormedASCII =>
        /\ ~aborted
        /\ done =>
            /\ ret.err = NilErr
            /\ Len(ret.facets) = Len(gen.blocks)
            /\ \A i \in 1..Len(gen.blocks) :
                /\ ret.facets[i].Normal = blockOf(i).Normal
                /\ \A j \in 1..3 :
                       ret.facets[i].Vertices[j] = blockOf(i).Vertices[j]

C1_Witness ==
    /\ WellFormedASCII /\ succeeded
    /\ Len(gen.blocks) = 2 /\ gen.blocks[1] # gen.blocks[2]
    /\ Len(ret.facets) = 2

\* C2: a binary buffer that does not start with "solid" and holds at least the
\* N records it declares is decoded to exactly N facets with no error, vertex j
\* of facet i being the floats at bytes 12+12j .. 23+12j of record i; the
\* bytes after the N-th record change nothing.
C2_BinaryVertices ==
    (Complete /\ ~startsWithSolid(stl)) =>
        /\ ~aborted
        /\ done =>
            /\ ret.err = NilErr
            /\ Len(ret.facets) = gen.declared
            /\ \A i \in 1..gen.declared : \A j \in 1..3 :
                   ret.facets[i].Vertices[j] = recordVertex(i, j)

C2_Witness ==
    /\ Complete /\ ~startsWithSolid(stl) /\ succeeded
    /\ gen.declared = 2 /\ Len(stl) > binaryLen(2)
    /\ Len(ret.facets) = 2

\* C3: the Normal of facet i of a well-formed binary input is the three
\* floats at bytes 0..11 of record i.
C3_NormalFromRecord ==
    (Complete /\ ~startsWithSolid(stl) /\ succeeded) =>
        \A i \in 1..Len(ret.facets) : ret.facets[i].Normal = recordNormal(i)

\* C4: a buffer that starts with "solid", is a well-formed binary layout and
\* is no ASCII text is decoded by the binary reader after the ASCII attempt
\* failed: N facets, no error, whatever the header and the records hold.
C4_FallbackAlways ==
    (Complete /\ startsWithSolid(stl)) =>
        /\ ~aborted
        /\ done => (ret.err = NilErr /\ Len(ret.facets) = gen.declared)

\* C5: when the buffer starts with "solid" and both attempts fail,
\* ParseSTLBytes returns no facets and the ASCII attempt's error, not the
\* binary attempt's.
C5_AsciiErrorSurfaces ==
    (done /\ calls = <<"parseASCII", "parseBinary">> /\ binRet.err # NilErr) =>
        /\ ret.isNil /\ ret.facets = <<>>
        /\ ret.err = asciiRet.err
        /\ ret.err.type = "LexerError"
        /\ ret.err # binRet.err

C5_Witness ==
    /\ done /\ calls = <<"parseASCII", "parseBinary">>
    /\ binRet.err.type = "io" /\ asciiRet.err.type = "LexerError"

\* C6: an ASCII input with endloop or endfacet left out of one block makes
\* parseASCII fail with a LexerError and return no facets, also when earlier
\* blocks were lexed and their facets emitted.
C6_OmittedKeywordFails ==
    OmittedKeyword =>
        /\ ~aborted
        /\ asciiRet # NoResult =>
            /\ asciiRet.err.type = "LexerError"
            /\ asciiRet.isNil /\ asciiRet.facets = <<>>
        /\ done => ret.err # NilErr

C6_Witness ==
    /\ OmittedKeyword /\ gen.omitAt = 2
    /\ Len(facets) = 1
    /\ asciiRet.err.type = "LexerError" /\ asciiRet.isNil

\* C7: a buffer of length 0..4 gets the input-too-small error and a nil facet
\* list, and neither the ASCII lexer nor the binary reader is invoked.
C7_TooSmall ==
    Len(stl) < 5 =>
        /\ pc \in {"ParseSTLBytes", "done"}
        /\ calls = <<>> /\ l = NoLexer /\ b = NoBinary
        /\ done => /\ ret.err = Err("errorString", "STL file too small (<5 bytes)")
                   /\ ret.isNil /\ ret.facets = <<>>

C7_Witness == done /\ Len(stl) = 4 /\ ret.err.type = "errorString"

\* C8: for every buffer ParseSTLBytes ends in one of two ways, facets with a
\* nil error or nil facets with an error; it never aborts on an index or a
\* slice out of range.
C8_NeverAborts ==
    /\ pc # "panic"
    /\ done => \/ ret.err = NilErr
               \/ (ret.err # NilErr /\ ret.isNil /\ ret.facets = <<>>)

\* the facets a successful call must return, by the path that produced them
expectedVertices(i) ==
    IF BinaryLayout THEN [j \in 1..3 |-> recordVertex(i, j)]
    ELSE [j \in 1..3 |-> blockOf(i).Vertices[j]]

\* C9: every facet of a returned sequence, from either path, has Valid set and
\* its three vertices assigned from the input; a facet that holds only a
\* normal is in no returned sequence.
C9_ReturnedFacetsComplete ==
    succeeded =>
        \A i \in 1..Len(ret.facets) :
            /\ ret.facets[i].Valid
            /\ \A j \in 1..3 : ret.facets[i].Vertices[j] = expectedVertices(i)[j]

C9_Witness ==
    /\ succeeded /\ Len(ret.facets) = 2
    /\ BinaryLayout /\ startsWithSolid(stl)

\* C10: parseBinary on a buffer of length L declaring N succeeds if and only
\* if L >= 84 + 50 N; it fails with the header error when L < 80, the count
\* error when 80 <= L < 84, and a read error when the buffer ends inside a
\* record, returning a nil list in each case.
C10_BinaryLength ==
    (BinaryLayout /\ binRet # NoResult) =>
        /\ Len(stl) < HeaderLen =>
               binRet = Result(<<>>, TRUE,
                               Err("errorString", "Incomplete header on binary STL file."))
        /\ (Len(stl) >= HeaderLen /\ Len(stl) < HeaderLen + CountLen) =>
               binRet = Result(<<>>, TRUE,
                               Err("errorString", "Binary STL file contains no data."))
        /\ Complete =>
               (binRet.err = NilErr /\ Len(binRet.facets) = gen.declared)
        /\ (Len(stl) >= HeaderLen + CountLen /\ ~Complete) =>
               (binRet.err.type = "io" /\ binRet.isNil /\ binRet.facets = <<>>)

C10_Witness ==
    /\ BinaryLayout /\ done /\ gen.declared = 2
    /\ Len(stl) = binaryLen(2) - 1
    /\ Len(b.facets) = 2
    /\ binRet.err.type = "io" /\ binRet.isNil

\* an input whose mesh name is left out, so that "facet" is the first
\* identifier after "solid"
Nameless == gen.kind \in {"nameless", "glued"}
\* the Header state has run
headerRan == l # NoLexer /\ l.state # "asciiFileHeader"

\* C11: when the mesh name is left out, the Header state leaves the mesh name
\* unset and hands the keyword "facet" to the Facet state, and the input, well
\* formed otherwise with K facet blocks, is parsed to K facets with no error.
C11_NamelessParses ==
    Nameless =>
        /\ ~aborted
        /\ headerRan => l.meshName = <<>>
        /\ done => (ret.err = NilErr /\ Len(ret.facets) = Len(gen.blocks))

\* an ASCII input cut before the end of its "endsolid", long enough for the
\* ASCII attempt to be made
CutInput == gen.kind = "cut" /\ startsWithSolid(stl)

\* C12: when the input ends before "endsolid", the lexer ends in its terminal
\* state with an error recorded, and parseASCII returns a LexerError and no
\* facets.
C12_CutInputFails ==
    CutInput =>
        /\ ~aborted
        /\ (headerRan /\ l.state = "nil") => l.error # NoError
        /\ asciiRet # NoResult =>
            /\ asciiRet.err.type = "LexerError"
            /\ asciiRet.isNil /\ asciiRet.facets = <<>>

\* the step of nextFacet taken while the queue holds a facet is the receive:
\* the lexer's cursor and state stay as they are
receiveOnly ==
    (pc = "nextFacet" /\ l.items # <<>>) =>
        /\ l'.items = Tail(l.items)
        /\ l'.pos = l.pos /\ l'.start = l.start /\ l'.state = l.state
        /\ l'.pendingFacet = l.pendingFacet

\* C13: the facet queue of capacity 2 never holds more than one facet, emit
\* never blocks on a full queue, and a state function runs only when the
\* queue is empty.
C13_Alternation ==
    /\ [](Len(l.items) <= 1 /\ Len(l.items) < QueueCap /\ ~l.blocked /\ pc # "blocked")
    /\ [][receiveOnly]_vars

\* the second facet waits in the queue after the first was received
C13_Witness ==
    /\ pc = "nextFacet" /\ Len(l.items) = 1 /\ Len(facets) = 1
    /\ l.state = "asciiFacet"

\* a Facet or Vertex step that ends in another state leaves the cursor
\* strictly further into the input
stepAdvances ==
    (/\ pc = "nextFacet" /\ l.items = <<>>
     /\ l.state \in {"asciiFacet", "asciiVertex"}
     /\ pc' = "nextFacet") => l'.pos > l.pos

\* C14: the ASCII lexer of every input eventually reaches its terminal (nil)
\* state, each Facet or Vertex step that does not end the lexing having moved
\* the cursor forward.
C14_LexerTerminates ==
    /\ [][stepAdvances]_vars
    /\ (pc = "nextFacet") ~> (headerRan /\ l.state = "nil")

\* the part of C14 that holds: the steps advance and the lexing stops
LexingStops ==
    /\ [][stepAdvances]_vars
    /\ (pc = "nextFacet") ~> (pc # "nextFacet")

\* nextFacet is about to run the state function name
aboutToRun(name) == pc = "nextFacet" /\ l.items = <<>> /\ l.state = name
\* the facets the lexer has emitted so far, in emission order: those
\* parseASCII holds and those still in the queue
emitted == facets \o l.items

pendingLifecycle ==
    /\ aboutToRun("asciiVertex") =>
        /\ l.pendingFacet # <<>>
        /\ ~l.pendingFacet[1].Valid
        /\ l.pendingFacet[1].Vertices = <<ZeroVertex, ZeroVertex, ZeroVertex>>
        /\ l.pendingFacet[1].Normal = blockOf(Len(facets) + 1).Normal
    /\ (pc = "nextFacet" /\ l.state = "asciiFacet") => l.pendingFacet = <<>>
    /\ Len(emitted) <= Len(gen.blocks)
    /\ \A i \in 1..Len(emitted) :
           /\ emitted[i].Valid
           /\ emitted[i].Vertices = blockOf(i).Vertices
           /\ emitted[i].Normal = blockOf(i).Normal

\* a step emits at most one facet, only the Vertex state emits, and the
\* facets emitted before the step are the same after it
emittedOnce ==
    /\ Len(emitted') <= Len(emitted) + 1
    /\ Len(emitted') = Len(emitted) + 1 =>
           (aboutToRun("asciiVertex") /\ l'.pendingFacet = <<>>)
    /\ \A i \in 1..Len(emitted) : emitted'[i] = emitted[i]

\* C15: before a Vertex step the pending facet exists, holds the normal just
\* parsed and is not Valid; before a Facet step there is no pending facet; a
\* facet is emitted once, with its Vertices and Valid set, and is never
\* written again.
C15_PendingFacetLifecycle == []pendingLifecycle /\ [][emittedOnce]_vars

\* the second block's facet is pending while the first is with parseASCII
C15_Witness ==
    /\ aboutToRun("asciiVertex") /\ Len(facets) = 1
    /\ l.pendingFacet # <<>> /\ l.pendingFacet[1].Normal = blockOf(2).Normal

\* the normals of a facet list, were each taken from the scratch buffer ps:
\* zero for the first, the last vertex of the facet before for the others
staleNormals(fs) ==
    \A i \in 1..Len(fs) :
        fs[i].Normal = IF i = 1 THEN ZeroBits ELSE fs[i - 1].Vertices[3]

\* the result of the call is the binary reader's
binaryResult == succeeded /\ calls[Len(calls)] = "parseBinary"

\* C16: the Normal of the first facet the binary reader returns is (0,0,0)
\* and the Normal of every later facet is Vertices[2] of the facet before,
\* whatever normals the records hold.
C16_StaleNormal ==
    /\ staleNormals(b.facets)
    /\ binRet.err = NilErr => staleNormals(binRet.facets)
    /\ binaryResult => staleNormals(ret.facets)

\* two facets returned, the second with a normal that is the first's last
\* vertex and not its own record's normal
C16_Witness ==
    /\ binaryResult /\ Len(ret.facets) = 2
    /\ ret.facets[2].Normal = recordVertex(1, 3)
    /\ ret.facets[2].Normal # recordNormal(2)
    /\ ret.facets[1].Normal # recordNormal(1)

\* an input with one number replaced by a token of digits and dots that
\* spells no float
BadNumber == gen.kind = "badnum"

\* C17: a token that acceptNumber takes and that spells no float, in the
\* place of any number of a normal or a vertex, fails the ASCII parse: the
\* lexer stops with the conversion's error, not the tokenizer's, and the call
\* returns an error and no facets.
C17_BadNumberFails ==
    BadNumber =>
        /\ ~aborted
        /\ (headerRan /\ l.state = "nil") => l.error = "Unable to parse float"
        /\ asciiRet # NoResult =>
            /\ asciiRet.err = Err("LexerError", "Unable to parse float")
            /\ asciiRet.isNil /\ asciiRet.facets = <<>>
        /\ done => (ret.err # NilErr /\ ret.isNil /\ ret.facets = <<>>)

\* the last coordinate of the second block is misspelt: the first block's
\* facet was lexed and is not returned
C17_Witness ==
    /\ BadNumber /\ done /\ gen.omitAt = 2 /\ gen.badAt = 12
    /\ Len(facets) = 1
    /\ ret = Result(<<>>, TRUE, Err("LexerError", "Unable to parse float"))

\* nextFacet returned nil because the state function returned nil
terminated == pc = "parseASCII.return" /\ l.state = "nil"

\* C18: when nextFacet reports the end of the lexing the queue is empty, and
\* every facet the Vertex state emitted is in parseASCII's list, in the order
\* of emission (the order of the blocks).
C18_NoFacetLost ==
    terminated =>
        /\ l.items = <<>>
        /\ emitted = facets
        /\ \A i \in 1..Len(facets) :
               facets[i] = blockOf(i)
        /\ (l.error = NoError /\ gen.kind = "ascii") => Len(facets) = Len(gen.blocks)

\* the lexing of two blocks ended at "endsolid" with both facets received
C18_Witness ==
    /\ terminated /\ l.error = NoError
    /\ Len(facets) = 2 /\ l.items = <<>>

\* C19: in every state of the ASCII lexer 0 <= start <= pos <= len(input), and
\* no read of input[pos] and no slice input[pos : pos+n] falls outside the
\* input (none panics).
C19_CursorInRange ==
    l # NoLexer =>
        /\ 0 <= l.start /\ l.start <= l.pos /\ l.pos <= inputLen
        /\ ~l.panic

\* an input whose first identifier after "solid" is its mesh name
Named == gen.kind \in {"ascii", "badnum"}

\* C20: once the Header state has run on an input whose first identifier is
\* not "facet", the mesh name is that identifier, without the whitespace
\* skipped before it.
C20_MeshName == (Named /\ headerRan) => l.meshName = Names[gen.name]

====
